---- MODULE Spec2Model ----
(***************************************************************************)
(* du2go: parallel disk-usage scan.  The model follows src/du.go (the      *)
(* current revision, lines 1-371, and the earlier revision of setMaxFile,  *)
(* lines 449-464), src/users.go and the progress ticker of src/util.go.    *)
(*                                                                         *)
(* A directory is named by its absolute path, a sequence of path           *)
(* components; filepath.Join(dir, name) is Append(dir, name).              *)
(***************************************************************************)
EXTENDS Integers, Sequences, FiniteSets, TLC

\* ------------------------------------------------------------------ bounds
MaxCPU == 2          \* runtime.NumCPU() ranges over 1..MaxCPU
MaxThreads == 2      \* the -t flag ranges over 1..MaxThreads
MaxLimit == 2        \* the -l flag ranges over 1..MaxLimit
MaxUserCalls == 3    \* addFile / addDir calls per task
MaxOldOffers == 4    \* offers made to the earlier revision's collector
MaxOldSize == 3      \* offered sizes range over 0..MaxOldSize

\* math.MaxInt64 / math.MinInt64, the modtime sentinels.  They are only ever
\* compared, never added to; the model keeps them at the width TLC has.
MathMaxInt64 == 2147483647
MathMinInt64 == -2147483647

\* ------------------------------------------------------- the file system
File(n, s, m) == [name |-> n, kind |-> "file", size |-> s, mtime |-> m, ok |-> TRUE]
NoStat(n) == [name |-> n, kind |-> "file", size |-> 0, mtime |-> 0, ok |-> FALSE]
Dir(n) == [name |-> n, kind |-> "dir", size |-> 0, mtime |-> 0, ok |-> TRUE]
Other(n) == [name |-> n, kind |-> "other", size |-> 0, mtime |-> 0, ok |-> TRUE]

\* root/{d1/{d2/{f4(2)}, f2(1)}, f1(2)}: nested, two files of one size
TreeNested ==
  [root |-> <<"r">>,
   ls |-> (<<"r">> :> <<Dir("d1"), File("f1", 2, 5)>>)
       @@ (<<"r", "d1">> :> <<Dir("d2"), File("f2", 1, 3)>>)
       @@ (<<"r", "d1", "d2">> :> <<File("f4", 2, 7)>>),
   unreadable |-> {}]

\* root/{a/{f(1)}, b/{f(3)}, c/{f(2)}}: wide, distinct sizes
TreeWide ==
  [root |-> <<"w">>,
   ls |-> (<<"w">> :> <<Dir("a"), Dir("b"), Dir("c")>>)
       @@ (<<"w", "a">> :> <<File("f", 1, 4)>>)
       @@ (<<"w", "b">> :> <<File("f", 3, 2)>>)
       @@ (<<"w", "c">> :> <<File("f", 2, 6)>>),
   unreadable |-> {}]

\* /{proc/ (unreadable), a/{proc/{f(4)}, bad/ (unreadable)}, z(0), nostat, link}
TreeSlash ==
  [root |-> <<>>,
   ls |-> (<<>> :> <<Dir("proc"), Dir("a"), File("z", 0, 1), NoStat("n"), Other("l")>>)
       @@ (<<"proc">> :> <<File("p", 9, 9)>>)
       @@ (<<"a">> :> <<Dir("proc"), Dir("bad")>>)
       @@ (<<"a", "proc">> :> <<File("f", 4, 8)>>)
       @@ (<<"a", "bad">> :> <<File("h", 5, 5)>>),
   unreadable |-> {<<"a", "bad">>, <<"proc">>}]

\* -d /proc: the root itself is a filter path
TreeProc ==
  [root |-> <<"proc">>,
   ls |-> (<<"proc">> :> <<File("p", 9, 9)>>),
   unreadable |-> {}]

\* an empty root
TreeEmpty ==
  [root |-> <<"e">>,
   ls |-> (<<"e">> :> <<>>),
   unreadable |-> {}]

Trees == {TreeNested, TreeWide, TreeSlash, TreeProc, TreeEmpty}

\* --------------------------------------------------------------- state
VARIABLES
  tree,            \* the file system under the root (input)
  cpuNum,          \* runtime.NumCPU()
  threadLimit,     \* *threadLimit after flag.Parse()
  summaryLimit,    \* *summaryLimit after flag.Parse()
  ticker_duration, \* *ticker_duration (-i) in seconds; 0 runs without the ticker
  mainpc,          \* position of main()
  exitCode,        \* process exit status, -1 while running
  workerSema,      \* semaphore.Weighted: [size, cur, waiters]
  stacks,          \* task -> call stack of walkGo frames (task = dir it was spawned for)
  nodes,           \* DirInfo by name
  totalSize, countFiles, countDirs,
  filterDirs, dirListErrors, filestatErrors, notDirOrFile,
  maxFiles,        \* maxGlobalFile: [limits, minFile, mapMax, mtxLocks]
  offered,         \* history: every (size, path) handed to maxFiles.setMaxFile
  maxDirByImmSize, maxDirByImmCount, maxDirByImmDirCount, maxDirByRecSize,
  ticker,          \* the progress ticker and its goroutine's locals
  walked,          \* history: directory -> number of walkGo calls made for it
  userMap,         \* xsync.MapOf[uint32, UserStats]: uid -> UserStats
  switchUserCount,
  userLocal,       \* task -> its local UserStats accumulator
  userpc,          \* task -> "run" | "done" (after the final flush)
  userCalls,       \* history: [files, dirs, size] totals of the calls made
  userReport,      \* printUserInfo: [done, limit, rows], the rows it printed
  oldMaxFiles,     \* maxGlobalFile of the earlier revision: [limits, minFile, mapMax, mtx]
  oldpc,           \* offerer -> position in the earlier setMaxFile
  oldOffer         \* offerer -> the size it is offering

userVars == <<userMap, switchUserCount, userLocal, userpc, userCalls, userReport>>
oldVars == <<oldMaxFiles, oldpc, oldOffer>>
others == <<userVars, oldVars>>
counters == <<totalSize, countFiles, countDirs, filterDirs, dirListErrors,
              filestatErrors, notDirOrFile>>
config == <<tree, cpuNum, threadLimit, summaryLimit, ticker_duration>>
reports == <<maxDirByImmSize, maxDirByImmCount, maxDirByImmDirCount, maxDirByRecSize>>
aux == <<ticker, walked>>
scanVars == <<config, mainpc, exitCode, workerSema, stacks, nodes, counters,
              maxFiles, offered, reports, aux>>
vars == <<scanVars, others>>

\* ------------------------------------------------------------ DirInfo
NewDirInfo(name) ==
  [name |-> name,
   imm_size |-> 0, imm_files |-> 0, imm_dirs |-> 0,
   imm_old_file |-> MathMaxInt64, imm_new_file |-> MathMinInt64,
   rec_size |-> 0, rec_files |-> 0, rec_dirs |-> 0,
   rec_old_file |-> MathMaxInt64, rec_new_file |-> MathMinInt64,
   children |-> <<>>]

maxInt64(a, b) == IF b > a THEN b ELSE a
minInt64(a, b) == IF b < a THEN b ELSE a

\* ------------------------------------------- btree.BTreeG[PathSize]
\* The tree is ordered by pathSizeLess; two items neither of which is less
\* than the other are the same key.
pathSizeLess(a, b) == a.size < b.size

PathSize(size, path) == [size |-> size, path |-> path]

ReplaceOrInsert(t, item) ==
  {x \in t : pathSizeLess(x, item) \/ pathSizeLess(item, x)} \cup {item}

Min(t) == CHOOSE x \in t : \A y \in t : ~pathSizeLess(y, x)

DeleteMin(t) == IF t = {} THEN t ELSE t \ {Min(t)}

\* mtxLocks is history: the number of m.mtx.Lock() calls made so far
NewMaxGlobalFile(limit) == [limits |-> limit, minFile |-> 0, mapMax |-> {}, mtxLocks |-> 0]

\* the current revision: Lock, deferred Unlock, then the test of the watermark
setMaxFile(m0, size, path) ==
  LET m == [m0 EXCEPT !.mtxLocks = @ + 1]
      currMin == m.minFile
  IN IF size > currMin
     THEN LET t1 == ReplaceOrInsert(m.mapMax, PathSize(size, path))
              t2 == IF Cardinality(t1) > m.limits THEN DeleteMin(t1) ELSE t1
          IN [m EXCEPT !.mapMax = t2,
                       !.minFile = IF currMin > size THEN size ELSE @]
     ELSE m

trySetNewMaxPathOffByOne(t, size, path, limit) ==
  LET t1 == ReplaceOrInsert(t, PathSize(size, path))
  IN IF Cardinality(t1) > limit + 1 THEN DeleteMin(t1) ELSE t1

trySetNewMaxPath(t, size, path, limit) ==
  LET t1 == ReplaceOrInsert(t, PathSize(size, path))
  IN IF Cardinality(t1) > limit THEN DeleteMin(t1) ELSE t1

\* ------------------------------------------------ semaphore.Weighted
\* golang.org/x/sync/semaphore as du.go uses it.  waiters is the FIFO of
\* blocked Acquire calls (only main ever blocks).
NewWeighted(n) == [size |-> n, cur |-> 0, waiters |-> <<>>]

CanAcquire(s, n) == s.size - s.cur >= n /\ s.waiters = <<>>

Release(s) ==
  LET c == s.cur - 1 IN
  IF s.waiters # <<>> /\ s.size - c >= Head(s.waiters)
  THEN [s EXCEPT !.cur = c + Head(s.waiters), !.waiters = Tail(s.waiters)]
  ELSE [s EXCEPT !.cur = c]

fsFilter == {<<"proc">>, <<"dev">>, <<"sys">>}

\* ------------------------------------------------------------ roll-up
RECURSIVE treePerk(_, _)
RECURSIVE treePerkFrom(_, _, _)
\* the loop of treePerk(dir) from child i on; ns is the DirInfo store
treePerkFrom(ns, dir, i) ==
  IF i > Len(ns[dir].children) THEN ns
  ELSE LET child == ns[dir].children[i]
           n1 == treePerk(ns, child)
           n2 == [n1 EXCEPT
                    ![dir].rec_size = @ + n1[child].rec_size,
                    ![dir].rec_files = @ + n1[child].rec_files,
                    ![dir].rec_dirs = @ + n1[child].rec_dirs,
                    ![dir].rec_new_file = maxInt64(@, n1[child].rec_new_file),
                    ![dir].rec_old_file = minInt64(@, n1[child].rec_old_file)]
       IN treePerkFrom(n2, dir, i + 1)

treePerk(ns, dir) == treePerkFrom(ns, dir, 1)

\* ------------------------------------------------------------- report
RECURSIVE walkTreeSummary(_, _, _, _)
RECURSIVE walkTreeSummaryFrom(_, _, _, _, _)
\* r is the four per-directory collectors
walkTreeSummaryFrom(r, ns, dir, sumLimit, i) ==
  IF i > Len(ns[dir].children) THEN r
  ELSE walkTreeSummaryFrom(walkTreeSummary(r, ns, ns[dir].children[i], sumLimit),
                           ns, dir, sumLimit, i + 1)

\* a report walk that feeds the directories below dir and not dir itself
walkTreeSummaryChildrenOnly(r, ns, dir, sumLimit) ==
  walkTreeSummaryFrom(r, ns, dir, sumLimit, 1)

walkTreeSummary(r, ns, dir, sumLimit) ==
  LET d == ns[dir]
      r1 == [immSize |-> trySetNewMaxPath(r.immSize, d.imm_size, d.name, sumLimit),
             immCount |-> trySetNewMaxPath(r.immCount, d.imm_files, d.name, sumLimit),
             immDirCount |-> trySetNewMaxPath(r.immDirCount, d.imm_dirs, d.name, sumLimit),
             recSize |-> trySetNewMaxPath(r.recSize, d.rec_size, d.name, sumLimit)]
  IN walkTreeSummaryFrom(r1, ns, dir, sumLimit, 1)

\* ------------------------------------------------------------- ticker
\* util.go create_start_ticker: the goroutine's last_* locals, the deltas of
\* the line it printed last and, as history, the sum of the deltas printed for
\* each counter.
NoTicker ==
  [running |-> FALSE,
   last_totalSize |-> 0, last_countFiles |-> 0, last_countDirs |-> 0,
   delta_totalSize |-> 0, delta_countFiles |-> 0, delta_countDirs |-> 0,
   sum_totalSize |-> 0, sum_countFiles |-> 0, sum_countDirs |-> 0]

create_start_ticker == [NoTicker EXCEPT !.running = TRUE]

\* history of the walkGo calls: one more call made for dir
Called(w, dir) == IF dir \in DOMAIN w THEN [w EXCEPT ![dir] = @ + 1] ELSE (dir :> 1) @@ w

\* ---------------------------------------------------------------- Init
ScanInit ==
  /\ tree \in Trees
  /\ cpuNum \in 1..MaxCPU
  /\ threadLimit \in 1..MaxThreads
  /\ summaryLimit \in 1..MaxLimit
  /\ mainpc = "start"
  /\ exitCode = -1
  /\ workerSema = NewWeighted(cpuNum)
  /\ stacks = <<>>
  /\ nodes = <<>>
  /\ totalSize = 0 /\ countFiles = 0 /\ countDirs = 0
  /\ filterDirs = 0 /\ dirListErrors = 0 /\ filestatErrors = 0 /\ notDirOrFile = 0
  /\ maxFiles = NewMaxGlobalFile(0)
  /\ offered = {}
  /\ maxDirByImmSize = {} /\ maxDirByImmCount = {}
  /\ maxDirByImmDirCount = {} /\ maxDirByRecSize = {}
  /\ ticker = NoTicker
  /\ walked = <<>>

\* ---------------------------------------------------------------- main
MainExtraArgs ==
  /\ mainpc = "start"
  /\ mainpc' = "exited"
  /\ exitCode' = 2
  /\ UNCHANGED <<others, aux, config, workerSema, stacks, nodes, counters, maxFiles, offered, reports>>

MainAbsErr ==
  /\ mainpc = "start"
  /\ maxFiles' = NewMaxGlobalFile(summaryLimit)
  /\ mainpc' = "exited"
  /\ exitCode' = 0
  /\ UNCHANGED <<others, aux, config, workerSema, stacks, nodes, counters, offered, reports>>

MainStart ==
  /\ mainpc = "start"
  /\ maxFiles' = NewMaxGlobalFile(summaryLimit)
  /\ ticker' = IF ticker_duration # 0 THEN create_start_ticker ELSE ticker
  /\ nodes' = (tree.root :> NewDirInfo(tree.root))
  /\ mainpc' = "acquire"
  /\ UNCHANGED <<others, walked, config, exitCode, workerSema, stacks, counters, offered, reports>>

Frame(dir, goroutine, depth) ==
  [dir |-> dir, idx |-> 0, goroutine |-> goroutine, depth |-> depth,
   newest |-> MathMinInt64, oldest |-> MathMaxInt64, mid |-> FALSE]

MainAcquireRoot ==
  /\ mainpc = "acquire"
  /\ CanAcquire(workerSema, 1)
  /\ workerSema' = [workerSema EXCEPT !.cur = @ + 1]
  /\ stacks' = (tree.root :> <<Frame(tree.root, TRUE, 0)>>)
  /\ walked' = Called(walked, tree.root)
  /\ mainpc' = "scan"
  /\ UNCHANGED <<others, ticker, config, exitCode, nodes, counters, maxFiles, offered, reports>>

MainBarrierPass ==
  /\ mainpc = "barrier"
  /\ CanAcquire(workerSema, threadLimit)
  /\ workerSema' = [workerSema EXCEPT !.cur = @ + threadLimit]
  /\ mainpc' = "rollup"
  /\ UNCHANGED <<others, aux, config, exitCode, stacks, nodes, counters, maxFiles, offered, reports>>

\* Acquire(ctx, n) with n > size never returns under context.Background()
MainBarrierBlocked ==
  /\ mainpc = "barrier"
  /\ ~CanAcquire(workerSema, threadLimit)
  /\ threadLimit > workerSema.size
  /\ mainpc' = "blocked"
  /\ UNCHANGED <<others, aux, config, exitCode, workerSema, stacks, nodes, counters, maxFiles,
                 offered, reports>>

MainBarrierWait ==
  /\ mainpc = "barrier"
  /\ ~CanAcquire(workerSema, threadLimit)
  /\ threadLimit <= workerSema.size
  /\ workerSema' = [workerSema EXCEPT !.waiters = Append(@, threadLimit)]
  /\ mainpc' = "waiting"
  /\ UNCHANGED <<others, aux, config, exitCode, stacks, nodes, counters, maxFiles, offered, reports>>

MainTreePerk ==
  /\ mainpc = "rollup"
  /\ ticker' = IF ticker_duration # 0 THEN [ticker EXCEPT !.running = FALSE] ELSE ticker
  /\ nodes' = treePerk(nodes, tree.root)
  /\ mainpc' = "report"
  /\ UNCHANGED <<others, walked, config, exitCode, workerSema, stacks, counters, maxFiles, offered, reports>>

MainWalkTreeSummary ==
  /\ mainpc = "report"
  /\ LET r == walkTreeSummary([immSize |-> maxDirByImmSize, immCount |-> maxDirByImmCount,
                               immDirCount |-> maxDirByImmDirCount,
                               recSize |-> maxDirByRecSize],
                              nodes, tree.root, summaryLimit)
     IN /\ maxDirByImmSize' = r.immSize
        /\ maxDirByImmCount' = r.immCount
        /\ maxDirByImmDirCount' = r.immDirCount
        /\ maxDirByRecSize' = r.recSize
  /\ mainpc' = "done"
  /\ exitCode' = 0
  /\ UNCHANGED <<others, aux, config, workerSema, stacks, nodes, counters, maxFiles, offered>>

\* a pass that prints the deltas and keeps the old last_countFiles
TickerTickStaleLast ==
  /\ ticker.running
  /\ mainpc \notin {"done", "exited"}
  /\ ticker' = [ticker EXCEPT
                  !.last_totalSize = totalSize,
                  !.last_countDirs = countDirs,
                  !.delta_totalSize = totalSize - ticker.last_totalSize,
                  !.delta_countFiles = countFiles - ticker.last_countFiles,
                  !.delta_countDirs = countDirs - ticker.last_countDirs,
                  !.sum_totalSize = @ + (totalSize - ticker.last_totalSize),
                  !.sum_countFiles = @ + (countFiles - ticker.last_countFiles),
                  !.sum_countDirs = @ + (countDirs - ticker.last_countDirs)]
  /\ UNCHANGED <<others, walked, config, mainpc, exitCode, workerSema, stacks, nodes, counters,
                 maxFiles, offered, reports>>

\* one pass of `for range ticker.C`: sample the counters, print the deltas.
\* The counters are uint64 and only grow, so this - last never wraps.
TickerTick ==
  /\ ticker.running
  /\ mainpc \notin {"done", "exited"}
  /\ LET this_totalSize == totalSize
         this_countFiles == countFiles
         this_countDirs == countDirs
         delta_totalSize == this_totalSize - ticker.last_totalSize
         delta_countFiles == this_countFiles - ticker.last_countFiles
         delta_countDirs == this_countDirs - ticker.last_countDirs
     IN ticker' = [running |-> TRUE,
                   last_totalSize |-> this_totalSize,
                   last_countFiles |-> this_countFiles,
                   last_countDirs |-> this_countDirs,
                   delta_totalSize |-> delta_totalSize,
                   delta_countFiles |-> delta_countFiles,
                   delta_countDirs |-> delta_countDirs,
                   sum_totalSize |-> ticker.sum_totalSize + delta_totalSize,
                   sum_countFiles |-> ticker.sum_countFiles + delta_countFiles,
                   sum_countDirs |-> ticker.sum_countDirs + delta_countDirs]
  /\ UNCHANGED <<others, walked, config, mainpc, exitCode, workerSema, stacks, nodes, counters,
                 maxFiles, offered, reports>>

\* -------------------------------------------------------------- walkGo
\* A task is named by the directory it was started for; its stack holds one
\* frame per walkGo call (the task's own, then the synchronous recursions).
Tasks == DOMAIN stacks
Live == {t \in Tasks : stacks[t] # <<>>}
Top(t) == stacks[t][Len(stacks[t])]
Entries(f) == tree.ls[f.dir]
Running(t) == t \in Live /\ mainpc \notin {"done", "exited"}

\* a return that releases a permit whether or not the call was spawned
ReturnAlwaysRelease(t, st) ==
  LET rest == SubSeq(st[t], 1, Len(st[t]) - 1)
      sem == Release(workerSema)
  IN /\ stacks' = [st EXCEPT ![t] = rest]
     /\ workerSema' = sem
     /\ mainpc' = IF t = tree.root /\ rest = <<>> THEN "barrier"
                  ELSE IF mainpc = "waiting" /\ sem.waiters = <<>> THEN "rollup"
                  ELSE mainpc

\* return from the top walkGo call of task t: the deferred Release(1) runs when
\* the call was started with goroutine = true.  st is the stack store to pop.
Return(t, st) ==
  LET f == Top(t)
      rest == SubSeq(st[t], 1, Len(st[t]) - 1)
      sem == IF f.goroutine THEN Release(workerSema) ELSE workerSema
  IN /\ stacks' = [st EXCEPT ![t] = rest]
     /\ workerSema' = sem
     /\ mainpc' = IF t = tree.root /\ rest = <<>> THEN "barrier"
                  ELSE IF mainpc = "waiting" /\ sem.waiters = <<>> THEN "rollup"
                  ELSE mainpc

\* a filter that looks at the last path component, at any depth
FilteredByBaseName(f) == f.dir # <<>> /\ <<f.dir[Len(f.dir)]>> \in fsFilter

\* lines 111-112: the "goofy special filters" test of the call in frame f
Filtered(f) == f.depth <= 1 /\ f.dir \in fsFilter

WalkFilter(t) ==
  /\ Running(t)
  /\ Top(t).idx = 0
  /\ Filtered(Top(t))
  /\ filterDirs' = filterDirs + 1
  /\ Return(t, stacks)
  /\ UNCHANGED <<others, aux, config, exitCode, nodes, totalSize, countFiles, countDirs,
                 dirListErrors, filestatErrors, notDirOrFile, maxFiles, offered, reports>>

\* a read failure that is counted but does not end the call
WalkReadDirErrNoReturn(t) ==
  /\ Running(t)
  /\ Top(t).idx = 0
  /\ ~Filtered(Top(t))
  /\ Top(t).dir \in tree.unreadable
  /\ dirListErrors' = dirListErrors + 1
  /\ stacks' = [stacks EXCEPT ![t][Len(stacks[t])].idx = 1]
  /\ UNCHANGED <<others, aux, config, mainpc, exitCode, workerSema, nodes, totalSize,
                 countFiles, countDirs, filterDirs, filestatErrors, notDirOrFile,
                 maxFiles, offered, reports>>

WalkReadDirErr(t) ==
  /\ Running(t)
  /\ Top(t).idx = 0
  /\ ~Filtered(Top(t))
  /\ Top(t).dir \in tree.unreadable
  /\ dirListErrors' = dirListErrors + 1
  /\ Return(t, stacks)
  /\ UNCHANGED <<others, aux, config, exitCode, nodes, totalSize, countFiles, countDirs,
                 filterDirs, filestatErrors, notDirOrFile, maxFiles, offered, reports>>

WalkReadDir(t) ==
  /\ Running(t)
  /\ Top(t).idx = 0
  /\ ~Filtered(Top(t))
  /\ Top(t).dir \notin tree.unreadable
  /\ stacks' = [stacks EXCEPT ![t][Len(stacks[t])] =
                  [@ EXCEPT !.idx = 1, !.newest = MathMinInt64, !.oldest = MathMaxInt64]]
  /\ UNCHANGED <<others, aux, config, mainpc, exitCode, workerSema, nodes, counters, maxFiles,
                 offered, reports>>

AtEntry(t, kind) ==
  /\ Running(t)
  /\ Top(t).idx \in 1..Len(Entries(Top(t)))
  /\ ~Top(t).mid
  /\ Entries(Top(t))[Top(t).idx].kind = kind

\* lines 136-140: the new DirInfo, appended to the parent, and the counts
WithSubdir(ns, dir, cleanPath) ==
  [(cleanPath :> NewDirInfo(cleanPath)) @@ ns EXCEPT
     ![dir].children = Append(@, cleanPath),
     ![dir].imm_dirs = @ + 1,
     ![dir].rec_dirs = @ + 1]

WalkSubdirGo(t) ==
  /\ AtEntry(t, "dir")
  /\ LET f == Top(t)
         cleanPath == Append(f.dir, Entries(f)[f.idx].name)
     IN /\ nodes' = WithSubdir(nodes, f.dir, cleanPath)
        /\ countDirs' = countDirs + 1
        /\ CanAcquire(workerSema, 1)
        /\ workerSema' = [workerSema EXCEPT !.cur = @ + 1]
        /\ stacks' = (cleanPath :> <<Frame(cleanPath, TRUE, f.depth + 1)>>)
                     @@ [stacks EXCEPT ![t][Len(stacks[t])].idx = @ + 1]
        /\ walked' = Called(walked, cleanPath)
  /\ UNCHANGED <<others, ticker, config, mainpc, exitCode, totalSize, countFiles, filterDirs,
                 dirListErrors, filestatErrors, notDirOrFile, maxFiles, offered, reports>>

WalkSubdirSteal(t) ==
  /\ AtEntry(t, "dir")
  /\ LET f == Top(t)
         cleanPath == Append(f.dir, Entries(f)[f.idx].name)
     IN /\ nodes' = WithSubdir(nodes, f.dir, cleanPath)
        /\ countDirs' = countDirs + 1
        /\ ~CanAcquire(workerSema, 1)
        /\ stacks' = [stacks EXCEPT ![t] =
                        Append([@ EXCEPT ![Len(@)].idx = f.idx + 1],
                               Frame(cleanPath, FALSE, f.depth + 1))]
        /\ walked' = Called(walked, cleanPath)
  /\ UNCHANGED <<others, ticker, config, mainpc, exitCode, workerSema, totalSize, countFiles, filterDirs,
                 dirListErrors, filestatErrors, notDirOrFile, maxFiles, offered, reports>>

\* a stat failure that is counted and ends the scan of the directory
WalkStatErrAbort(t) ==
  /\ AtEntry(t, "file")
  /\ ~Entries(Top(t))[Top(t).idx].ok
  /\ filestatErrors' = filestatErrors + 1
  /\ Return(t, stacks)
  /\ UNCHANGED <<others, aux, config, exitCode, nodes, totalSize, countFiles,
                 countDirs, filterDirs, dirListErrors, notDirOrFile, maxFiles,
                 offered, reports>>

WalkStatErr(t) ==
  /\ AtEntry(t, "file")
  /\ ~Entries(Top(t))[Top(t).idx].ok
  /\ filestatErrors' = filestatErrors + 1
  /\ stacks' = [stacks EXCEPT ![t][Len(stacks[t])].idx = @ + 1]
  /\ UNCHANGED <<others, aux, config, mainpc, exitCode, workerSema, nodes, totalSize, countFiles,
                 countDirs, filterDirs, dirListErrors, notDirOrFile, maxFiles,
                 offered, reports>>

\* lines 159-173 for a file whose Info() succeeded: the locals newest / oldest,
\* the counters and the sizes and counts of the DirInfo.  The plain writes to
\* the DirInfo are separate memory operations; the frame stays at this entry
\* (mid) until the second half has run.
WalkFile(t) ==
  /\ AtEntry(t, "file")
  /\ Entries(Top(t))[Top(t).idx].ok
  /\ LET f == Top(t)
         e == Entries(f)[f.idx]
         sz == e.size
         newest == IF e.mtime > f.newest THEN e.mtime ELSE f.newest
         oldest == IF e.mtime < f.oldest THEN e.mtime ELSE f.oldest
     IN /\ countFiles' = countFiles + 1
        /\ totalSize' = totalSize + sz
        /\ nodes' = [nodes EXCEPT
                       ![f.dir].imm_size = @ + sz,
                       ![f.dir].rec_size = @ + sz,
                       ![f.dir].imm_files = @ + 1,
                       ![f.dir].rec_files = @ + 1]
        /\ stacks' = [stacks EXCEPT ![t][Len(stacks[t])] =
                        [@ EXCEPT !.mid = TRUE, !.newest = newest, !.oldest = oldest]]
  /\ UNCHANGED <<others, aux, config, mainpc, exitCode, workerSema, countDirs, filterDirs,
                 dirListErrors, filestatErrors, notDirOrFile, maxFiles, offered, reports>>

\* lines 175-180: the modtime extrema of the DirInfo and the offer to maxFiles
WalkFileTimes(t) ==
  /\ Running(t)
  /\ Top(t).mid
  /\ LET f == Top(t)
         e == Entries(f)[f.idx]
         cleanPath == Append(f.dir, e.name)
     IN /\ nodes' = [nodes EXCEPT
                       ![f.dir].imm_new_file = f.newest,
                       ![f.dir].imm_old_file = f.oldest,
                       ![f.dir].rec_new_file = maxInt64(@, f.newest),
                       ![f.dir].rec_old_file = minInt64(@, f.oldest)]
        /\ maxFiles' = setMaxFile(maxFiles, e.size, cleanPath)
        /\ offered' = offered \cup {PathSize(e.size, cleanPath)}
        /\ stacks' = [stacks EXCEPT ![t][Len(stacks[t])] =
                        [@ EXCEPT !.idx = f.idx + 1, !.mid = FALSE]]
  /\ UNCHANGED <<others, aux, config, mainpc, exitCode, workerSema, counters, reports>>

WalkOther(t) ==
  /\ AtEntry(t, "other")
  /\ notDirOrFile' = notDirOrFile + 1
  /\ stacks' = [stacks EXCEPT ![t][Len(stacks[t])].idx = @ + 1]
  /\ UNCHANGED <<others, aux, config, mainpc, exitCode, workerSema, nodes, totalSize, countFiles,
                 countDirs, filterDirs, dirListErrors, filestatErrors, maxFiles,
                 offered, reports>>

WalkReturn(t) ==
  /\ Running(t)
  /\ Top(t).idx > Len(Entries(Top(t)))
  /\ Return(t, stacks)
  /\ UNCHANGED <<others, aux, config, exitCode, nodes, counters, maxFiles, offered, reports>>

\* =========================================================== users.go
\* ^uint32(0); the model writes the all-ones pattern as -1
NULL_USER_ID == -1

Uids == {0, 7}
UserSizes == {1, 2}
UserTasks == {1, 2}

NewUserStats == [uid |-> NULL_USER_ID, size |-> 0, filecount |-> 0, dircount |-> 0]

clear(user, uid) == [user EXCEPT !.uid = uid, !.dircount = 0, !.filecount = 0, !.size = 0]

\* a flush that stores the slot in place of the entry it finds
loadUserInfoOverwrite(m, userInfo) ==
  IF userInfo.uid = NULL_USER_ID THEN m
  ELSE IF userInfo.uid \notin DOMAIN m THEN (userInfo.uid :> userInfo) @@ m
  ELSE [m EXCEPT ![userInfo.uid] = userInfo]

\* userMap.Compute(userInfo.uid, ...): one atomic compute-or-insert
loadUserInfo(m, userInfo) ==
  IF userInfo.uid = NULL_USER_ID THEN m
  ELSE IF userInfo.uid \notin DOMAIN m THEN (userInfo.uid :> userInfo) @@ m
  ELSE [m EXCEPT ![userInfo.uid] =
          [@ EXCEPT !.dircount = @ + userInfo.dircount,
                    !.filecount = @ + userInfo.filecount,
                    !.size = @ + userInfo.size]]

\* switchUser, addDir and addFile give the new [user, map, switches]
switchUser(st, uid) ==
  [user |-> clear(st.user, uid),
   map |-> loadUserInfo(st.map, st.user),
   switches |-> IF st.user.uid # NULL_USER_ID THEN st.switches + 1 ELSE st.switches]

addDir(st, uid) ==
  LET st1 == IF st.user.uid = NULL_USER_ID THEN [st EXCEPT !.user.uid = uid] ELSE st
  IN IF uid = st1.user.uid
     THEN [st1 EXCEPT !.user.dircount = @ + 1]
     ELSE switchUser(st1, uid)

addFile(st, uid, size) ==
  LET st1 == IF st.user.uid = NULL_USER_ID THEN [st EXCEPT !.user.uid = uid] ELSE st
  IN IF uid = st1.user.uid
     THEN [st1 EXCEPT !.user.filecount = @ + 1, !.user.size = @ + size]
     ELSE switchUser(st1, uid)

NoUserReport == [done |-> FALSE, limit |-> 0, rows |-> <<>>]

UserInit ==
  /\ userMap = <<>>
  /\ switchUserCount = 0
  /\ userLocal = [t \in UserTasks |-> NewUserStats]
  /\ userpc = [t \in UserTasks |-> [calls |-> 0, done |-> FALSE]]
  /\ userCalls = [files |-> 0, dirs |-> 0, size |-> 0]
  /\ userReport = NoUserReport

UserState(t) == [user |-> userLocal[t], map |-> userMap, switches |-> switchUserCount]

UserApply(t, st) ==
  /\ userLocal' = [userLocal EXCEPT ![t] = st.user]
  /\ userMap' = st.map
  /\ switchUserCount' = st.switches
  /\ userpc' = [userpc EXCEPT ![t].calls = @ + 1]

UserAddFile(t) ==
  /\ ~userpc[t].done /\ userpc[t].calls < MaxUserCalls
  /\ \E uid \in Uids, size \in UserSizes :
       /\ UserApply(t, addFile(UserState(t), uid, size))
       /\ userCalls' = [userCalls EXCEPT !.files = @ + 1, !.size = @ + size]
  /\ UNCHANGED <<scanVars, oldVars, userReport>>

UserAddDir(t) ==
  /\ ~userpc[t].done /\ userpc[t].calls < MaxUserCalls
  /\ \E uid \in Uids :
       /\ UserApply(t, addDir(UserState(t), uid))
       /\ userCalls' = [userCalls EXCEPT !.dirs = @ + 1]
  /\ UNCHANGED <<scanVars, oldVars, userReport>>

\* the final flush of the local slot when the task ends
UserFlush(t) ==
  /\ ~userpc[t].done
  /\ userMap' = loadUserInfo(userMap, userLocal[t])
  /\ userpc' = [userpc EXCEPT ![t].done = TRUE]
  /\ UNCHANGED <<scanVars, oldVars, switchUserCount, userLocal, userCalls, userReport>>

\* ------------------------------------------------------ printUserInfo
\* the zero value of UserStats, which make([]UserStats, n) fills the slice with
ZeroUserStats == [uid |-> 0, size |-> 0, filecount |-> 0, dircount |-> 0]

\* the counts of the model stay below 2^63, so the `>> 1` branch is not taken
diffu64(a, b) == a - b

cmpUserStatsSort(i, j) ==
  LET size_d == diffu64(i.size, j.size)
  IN IF size_d = 0
     THEN -diffu64(i.filecount + i.dircount, j.filecount + j.dircount)
     ELSE -size_d

RECURSIVE MapValues(_, _)
\* the values of the uids ks of map m, in one order of userMap.Range
MapValues(m, ks) ==
  IF ks = {} THEN <<>>
  ELSE LET k == CHOOSE x \in ks : TRUE IN <<m[k]>> \o MapValues(m, ks \ {k})

\* slices.SortFunc(list, cmp): the orders of list that cmp accepts (elements
\* that compare equal may end in any order, and Range visits in any order)
SortFunc(list) ==
  LET n == Len(list)
      perms == {f \in [1..n -> 1..n] : \A a, b \in 1..n : f[a] = f[b] => a = b}
  IN {[i \in 1..n |-> list[f[i]]] : f \in
        {g \in perms : \A a, b \in 1..n :
                         a < b => cmpUserStatsSort(list[g[a]], list[g[b]]) <= 0}}

\* the rows printUserInfo(limit) may print for the map m
printUserInfo(m, limit) ==
  IF Cardinality(DOMAIN m) > 0
  THEN LET size == Cardinality(DOMAIN m)
           list == [i \in 1..size |-> ZeroUserStats] \o MapValues(m, DOMAIN m)
           last == IF Len(list) < limit + 1 THEN Len(list) ELSE limit + 1
       IN {SubSeq(sorted, 1, last) : sorted \in SortFunc(list)}
  ELSE {<<>>}

\* the report phase prints the user section once every task has flushed
UserPrintInfo ==
  /\ \A t \in UserTasks : userpc[t].done
  /\ ~userReport.done
  /\ \E limit \in 1..MaxLimit :
       \E rows \in printUserInfo(userMap, limit) :
         userReport' = [done |-> TRUE, limit |-> limit, rows |-> rows]
  /\ UNCHANGED <<scanVars, oldVars, userMap, switchUserCount, userLocal, userpc, userCalls>>

\* ===================================== setMaxFile, the earlier revision
OldOfferers == {1, 2}

\* the locked part of the earlier setMaxFile (lines 454-462)
setMaxFileOldLocked(m, size, path) ==
  IF size > m.minFile
  THEN LET t1 == ReplaceOrInsert(m.mapMax, PathSize(size, path))
       IN IF Cardinality(t1) > m.limits
          THEN [m EXCEPT !.mapMax = DeleteMin(t1), !.minFile = size]
          ELSE [m EXCEPT !.mapMax = t1]
  ELSE m

OldInit ==
  /\ \E k \in 1..MaxLimit :
       oldMaxFiles = [limits |-> k, minFile |-> 0, mapMax |-> {}, mtx |-> 0, offers |-> 0]
  /\ oldpc = [o \in OldOfferers |-> "idle"]
  /\ oldOffer = [o \in OldOfferers |-> 0]

\* line 450: the unlocked check; a size not above the watermark returns at once
OldFastPath(o) ==
  /\ oldpc[o] = "idle"
  /\ oldMaxFiles.offers < MaxOldOffers
  /\ \E size \in 0..MaxOldSize :
       /\ oldOffer' = [oldOffer EXCEPT ![o] = size]
       /\ oldpc' = [oldpc EXCEPT ![o] = IF size > oldMaxFiles.minFile THEN "lock" ELSE "idle"]
  /\ oldMaxFiles' = [oldMaxFiles EXCEPT !.offers = @ + 1]
  /\ UNCHANGED <<scanVars, userVars>>

\* line 451: m.mtx.Lock()
OldLock(o) ==
  /\ oldpc[o] = "lock"
  /\ oldMaxFiles.mtx = 0
  /\ oldMaxFiles' = [oldMaxFiles EXCEPT !.mtx = o]
  /\ oldpc' = [oldpc EXCEPT ![o] = "locked"]
  /\ UNCHANGED <<scanVars, userVars, oldOffer>>

\* lines 454-462 and the deferred Unlock
OldLocked(o) ==
  /\ oldpc[o] = "locked"
  /\ oldMaxFiles' = [setMaxFileOldLocked(oldMaxFiles, oldOffer[o],
                                         <<"f", oldMaxFiles.offers, o>>)
                       EXCEPT !.mtx = 0]
  /\ oldpc' = [oldpc EXCEPT ![o] = "idle"]
  /\ UNCHANGED <<scanVars, userVars, oldOffer>>

\* ---------------------------------------------------------------- Spec
Next ==
  \/ MainExtraArgs \/ MainAbsErr \/ MainStart \/ MainAcquireRoot
  \/ MainBarrierPass \/ MainBarrierBlocked \/ MainBarrierWait
  \/ MainTreePerk \/ MainWalkTreeSummary
  \/ \E t \in Tasks : WalkFilter(t)
  \/ \E t \in Tasks : WalkReadDirErr(t)
  \/ \E t \in Tasks : WalkReadDir(t)
  \/ \E t \in Tasks : WalkSubdirGo(t)
  \/ \E t \in Tasks : WalkSubdirSteal(t)
  \/ \E t \in Tasks : WalkStatErr(t)
  \/ \E t \in Tasks : WalkFile(t)
  \/ \E t \in Tasks : WalkFileTimes(t)
  \/ \E t \in Tasks : WalkOther(t)
  \/ \E t \in Tasks : WalkReturn(t)

\* the parts of the state a specification does not run
UserIdle ==
  /\ userMap = <<>> /\ switchUserCount = 0 /\ userLocal = <<>>
  /\ userpc = <<>> /\ userCalls = [files |-> 0, dirs |-> 0, size |-> 0]
  /\ userReport = NoUserReport
OldIdle ==
  /\ oldMaxFiles = [limits |-> 0, minFile |-> 0, mapMax |-> {}, mtx |-> 0, offers |-> 0]
  /\ oldpc = <<>> /\ oldOffer = <<>>
ScanIdle ==
  /\ tree = TreeEmpty /\ cpuNum = 1 /\ threadLimit = 1 /\ summaryLimit = 1
  /\ ticker_duration = 0
  /\ mainpc = "idle" /\ exitCode = -1
  /\ workerSema = NewWeighted(1) /\ stacks = <<>> /\ nodes = <<>>
  /\ totalSize = 0 /\ countFiles = 0 /\ countDirs = 0
  /\ filterDirs = 0 /\ dirListErrors = 0 /\ filestatErrors = 0 /\ notDirOrFile = 0
  /\ maxFiles = NewMaxGlobalFile(0) /\ offered = {}
  /\ maxDirByImmSize = {} /\ maxDirByImmCount = {}
  /\ maxDirByImmDirCount = {} /\ maxDirByRecSize = {}
  /\ ticker = NoTicker /\ walked = <<>>

\* the scan run with -i 0, without the progress ticker
Init == ScanInit /\ ticker_duration = 0 /\ UserIdle /\ OldIdle

Spec == Init /\ [][Next]_vars

\* the scan run with the default -i 1s: the ticker goroutine beside it
TickerNext == Next \/ TickerTick

TickerSpecInit == ScanInit /\ ticker_duration = 1 /\ UserIdle /\ OldIdle

TickerSpec == TickerSpecInit /\ [][TickerNext]_vars

\* the user-stats aggregator on its own: tasks calling addFile / addDir
UserNext ==
  \/ \E t \in UserTasks : UserAddFile(t)
  \/ \E t \in UserTasks : UserAddDir(t)
  \/ \E t \in UserTasks : UserFlush(t)

UserSpecInit == ScanIdle /\ UserInit /\ OldIdle

UserSpec == UserSpecInit /\ [][UserNext]_vars

\* the aggregator followed by the user section of the report
UserReportNext == UserNext \/ UserPrintInfo

UserReportSpec == UserSpecInit /\ [][UserReportNext]_vars

\* the earlier revision's collector on its own: concurrent offers
OldNext ==
  \/ \E o \in OldOfferers : OldFastPath(o)
  \/ \E o \in OldOfferers : OldLock(o)
  \/ \E o \in OldOfferers : OldLocked(o)

OldSpecInit == ScanIdle /\ UserIdle /\ OldInit

OldSpec == OldSpecInit /\ [][OldNext]_vars

\* the Go scheduler runs every runnable goroutine eventually
FairSpec == Spec /\ WF_vars(Next)

\* ================================================================ claims
\* LiveTasks: the root scan plus every spawned walkGo task that has not returned
LiveTasks == Cardinality(Live)
PastBarrier == mainpc \in {"rollup", "report", "done"}
RolledUp == mainpc \in {"report", "done"}

\* C1 (worker bound): in every reachable state the number of live traversal
\* tasks is at most the configured pool capacity W = threadLimit.
C1_WorkerBound == LiveTasks <= threadLimit

\* C2 (quiescence barrier): once main's final Acquire(W) has returned, every
\* traversal task has returned, so roll-up and report never run beside a walkGo.
C2_Barrier == PastBarrier => Live = {}

\* C3 (termination): under fair scheduling main eventually passes the barrier
\* and reaches the roll-up and report phase.
C3_Termination == <>(mainpc \in {"rollup", "report", "done", "exited"})

\* What one sequential scan of tr below dir (at the given depth) finds: the
\* totals of the files whose stat succeeds and of the directories listed, the
\* modtime extrema, the error counts and, in depth-first listing order, the
\* (size, path) records of the files.
ExpectNothing ==
  [size |-> 0, files |-> 0, dirs |-> 0, new |-> MathMinInt64, old |-> MathMaxInt64,
   filtered |-> 0, listErrs |-> 0, statErrs |-> 0, others |-> 0, files_seen |-> <<>>]

RECURSIVE Expect(_, _, _)
RECURSIVE ExpectEntries(_, _, _, _)
ExpectEntries(tr, dir, depth, i) ==
  IF i > Len(tr.ls[dir]) THEN ExpectNothing
  ELSE LET e == tr.ls[dir][i]
           rest == ExpectEntries(tr, dir, depth, i + 1)
           here == IF e.kind = "dir"
                   THEN [Expect(tr, Append(dir, e.name), depth + 1) EXCEPT !.dirs = @ + 1]
                   ELSE IF e.kind = "file" /\ e.ok
                   THEN [ExpectNothing EXCEPT !.size = e.size, !.files = 1,
                           !.new = e.mtime, !.old = e.mtime,
                           !.files_seen = <<PathSize(e.size, Append(dir, e.name))>>]
                   ELSE IF e.kind = "file"
                   THEN [ExpectNothing EXCEPT !.statErrs = 1]
                   ELSE [ExpectNothing EXCEPT !.others = 1]
       IN [size |-> here.size + rest.size,
           files |-> here.files + rest.files,
           dirs |-> here.dirs + rest.dirs,
           new |-> maxInt64(here.new, rest.new),
           old |-> minInt64(here.old, rest.old),
           filtered |-> here.filtered + rest.filtered,
           listErrs |-> here.listErrs + rest.listErrs,
           statErrs |-> here.statErrs + rest.statErrs,
           others |-> here.others + rest.others,
           files_seen |-> here.files_seen \o rest.files_seen]

Expect(tr, dir, depth) ==
  IF depth <= 1 /\ dir \in fsFilter THEN [ExpectNothing EXCEPT !.filtered = 1]
  ELSE IF dir \in tr.unreadable THEN [ExpectNothing EXCEPT !.listErrs = 1]
  ELSE ExpectEntries(tr, dir, depth, 1)

ExpectRoot == Expect(tree, tree.root, 0)
DepthOf(dir) == Len(dir) - Len(tree.root)

\* C4 (conservation): after the roll-up, the root's rec_size is the sum of the
\* sizes of the files in the subtree whose stat succeeded, rec_files their
\* number and rec_dirs the number of directories strictly below the root.
C4_Conservation ==
  RolledUp =>
    /\ nodes[tree.root].rec_size = ExpectRoot.size
    /\ nodes[tree.root].rec_files = ExpectRoot.files
    /\ nodes[tree.root].rec_dirs = ExpectRoot.dirs

RECURSIVE SumRec(_, _, _)
\* sum of field(child) over the children c[k..]
SumRec(c, k, field) ==
  IF k > Len(c) THEN 0
  ELSE (CASE field = "size" -> nodes[c[k]].rec_size
          [] field = "files" -> nodes[c[k]].rec_files
          [] field = "dirs" -> nodes[c[k]].rec_dirs) + SumRec(c, k + 1, field)

RECURSIVE MaxNew(_, _, _)
MaxNew(c, k, acc) ==
  IF k > Len(c) THEN acc ELSE MaxNew(c, k + 1, maxInt64(acc, nodes[c[k]].rec_new_file))

RECURSIVE MinOld(_, _, _)
MinOld(c, k, acc) ==
  IF k > Len(c) THEN acc ELSE MinOld(c, k + 1, minInt64(acc, nodes[c[k]].rec_old_file))

\* C5 (immediate/recursive consistency): after the roll-up every DirInfo has
\* rec = imm + sum of the children's rec for size, files and dirs, and
\* rec_new_file / rec_old_file the max / min over imm and the children's rec.
C5_ImmRecConsistent ==
  RolledUp =>
    \A d \in DOMAIN nodes :
      LET n == nodes[d] IN
      /\ n.rec_size = n.imm_size + SumRec(n.children, 1, "size")
      /\ n.rec_files = n.imm_files + SumRec(n.children, 1, "files")
      /\ n.rec_dirs = n.imm_dirs + SumRec(n.children, 1, "dirs")
      /\ n.rec_new_file = MaxNew(n.children, 1, n.imm_new_file)
      /\ n.rec_old_file = MinOld(n.children, 1, n.imm_old_file)

\* t holds k largest records of the set all (ties at the cut in any order)
IsTopK(t, all, k) ==
  /\ t \subseteq all
  /\ Cardinality(t) = (IF Cardinality(all) < k THEN Cardinality(all) ELSE k)
  /\ \A x \in t : \A y \in all \ t : x.size >= y.size

\* C6 (top-K correctness): at the end of the scan the largest-file collector
\* holds exactly the K largest (size, path) records among all files offered,
\* all of them when fewer than K were offered.
C6_TopK == mainpc = "done" => IsTopK(maxFiles.mapMax, offered, summaryLimit)

RECURSIVE SeqCollector(_, _, _)
\* the collector after the offers q[k..] made in order
SeqCollector(m, q, k) ==
  IF k > Len(q) THEN m ELSE SeqCollector(setMaxFile(m, q[k].size, q[k].path), q, k + 1)

SameAsSequential ==
  LET x == ExpectRoot IN
  /\ totalSize = x.size /\ countFiles = x.files /\ countDirs = x.dirs
  /\ filterDirs = x.filtered /\ dirListErrors = x.listErrs
  /\ filestatErrors = x.statErrs /\ notDirOrFile = x.others
  /\ maxFiles.mapMax = SeqCollector(NewMaxGlobalFile(summaryLimit), x.files_seen, 1).mapMax
  /\ \A d \in DOMAIN nodes :
       LET y == Expect(tree, d, DepthOf(d)) IN
       /\ nodes[d].rec_size = y.size /\ nodes[d].rec_files = y.files
       /\ nodes[d].rec_dirs = y.dirs
       /\ nodes[d].rec_new_file = y.new /\ nodes[d].rec_old_file = y.old

\* C7 (determinism across worker counts): every finished run, whatever W and
\* the interleaving, ends with the counters, the largest-file collector and the
\* recursive fields of every DirInfo that the one-worker (sequential) run gives.
C7_Determinism == mainpc = "done" => SameAsSequential

\* the sequential reference is the run with one permit
SequentialRunIsReference ==
  (mainpc = "done" /\ cpuNum = 1 /\ threadLimit = 1) => SameAsSequential

\* C9 (top-K size bound): the largest-file collector and, after every
\* trySetNewMaxPath of the report walk, the four per-directory collectors hold
\* at most K = summaryLimit elements.
C9_SizeBound ==
  /\ Cardinality(maxFiles.mapMax) <= summaryLimit
  /\ Cardinality(maxDirByImmSize) <= summaryLimit
  /\ Cardinality(maxDirByImmCount) <= summaryLimit
  /\ Cardinality(maxDirByImmDirCount) <= summaryLimit
  /\ Cardinality(maxDirByRecSize) <= summaryLimit

\* more than K distinct positive sizes were offered and more than K directories
\* were fed to the report collectors, each of which is full
C9_Witness ==
  /\ mainpc = "done"
  /\ Cardinality({x.size : x \in {y \in offered : y.size > 0}}) > summaryLimit
  /\ Cardinality(DOMAIN nodes) > summaryLimit
  /\ Cardinality(maxFiles.mapMax) = summaryLimit
  /\ Cardinality(maxDirByImmSize) = summaryLimit

RECURSIVE SumMap(_, _)
\* sum of [files, dirs, size] over the entries of the uid map for the uids in ks
SumMap(m, ks) ==
  IF ks = {} THEN [files |-> 0, dirs |-> 0, size |-> 0]
  ELSE LET k == CHOOSE x \in ks : TRUE
           r == SumMap(m, ks \ {k})
       IN [files |-> r.files + m[k].filecount,
           dirs |-> r.dirs + m[k].dircount,
           size |-> r.size + m[k].size]

AllFlushed == \A t \in UserTasks : userpc[t].done

\* C8 (user-stats completeness): once every task has made its addFile / addDir
\* calls and its final flush, the sums of files, dirs and size over the uid map
\* equal the number of addFile calls, of addDir calls and the total size passed.
C8_UserComplete == AllFlushed => SumMap(userMap, DOMAIN userMap) = userCalls

\* C10 (watermark soundness): the watermark minFile is at most the smallest
\* size held whenever the collector is non-empty, and it never decreases.
WatermarkBelowMin(m) == m.mapMax # {} => m.minFile <= Min(m.mapMax).size
C10_Watermark ==
  /\ [](WatermarkBelowMin(oldMaxFiles) /\ WatermarkBelowMin(maxFiles))
  /\ [][oldMaxFiles'.minFile >= oldMaxFiles.minFile /\ maxFiles'.minFile >= maxFiles.minFile]_vars

\* the records offered so far have pairwise distinct, positive sizes
DistinctPositive(all) ==
  /\ \A x \in all : x.size > 0
  /\ \A x, y \in all : x.size = y.size => x = y

\* C11 (watermark tracks the minimum after eviction): once more than K files
\* of distinct positive sizes have been offered, the collector holds the K
\* largest of them and the watermark minFile equals the smallest size held.
C11_WatermarkTracksMin ==
  (Cardinality(offered) > summaryLimit /\ DistinctPositive(offered)) =>
    /\ IsTopK(maxFiles.mapMax, offered, summaryLimit)
    /\ maxFiles.minFile = Min(maxFiles.mapMax).size

TickerDeltasNonNegative ==
  /\ ticker.delta_totalSize >= 0
  /\ ticker.delta_countFiles >= 0
  /\ ticker.delta_countDirs >= 0

\* C12 (ticker stability), as claimed: every tick's delta is >= 0, and once the
\* run has ended with the ticker stopped after the barrier, the sum of the
\* deltas printed for each counter equals the counter's final value.
C12_TickerStability ==
  /\ TickerDeltasNonNegative
  /\ (mainpc = "done" /\ ~ticker.running) =>
       /\ ticker.sum_totalSize = totalSize
       /\ ticker.sum_countFiles = countFiles
       /\ ticker.sum_countDirs = countDirs

\* C12 (ticker stability), amended: every tick's delta is >= 0, and the sum of
\* the deltas printed for a counter always equals the value sampled at the
\* last tick, which is at most the counter's value (no tick follows Stop).
C12_TickerSumIsLastSample ==
  /\ TickerDeltasNonNegative
  /\ ticker.sum_totalSize = ticker.last_totalSize /\ ticker.last_totalSize <= totalSize
  /\ ticker.sum_countFiles = ticker.last_countFiles /\ ticker.last_countFiles <= countFiles
  /\ ticker.sum_countDirs = ticker.last_countDirs /\ ticker.last_countDirs <= countDirs

\* the run ended, the ticker stopped after a tick in mid-scan: its deltas sum
\* to a positive value below the final count
C12_Witness ==
  /\ mainpc = "done" /\ ~ticker.running
  /\ ticker.sum_countFiles > 0 /\ ticker.sum_countFiles < countFiles
  /\ ticker.delta_countFiles > 0

\* every walkGo call made so far has returned
Quiescent == Tasks # {} /\ Live = {}

\* p lies strictly below d
Under(d, p) == Len(p) > Len(d) /\ SubSeq(p, 1, Len(d)) = d

ZeroNode(n) ==
  /\ n.children = <<>>
  /\ n.imm_size = 0 /\ n.imm_files = 0 /\ n.imm_dirs = 0
  /\ n.rec_size = 0 /\ n.rec_files = 0 /\ n.rec_dirs = 0

Attached(d) ==
  \/ d = tree.root
  \/ LET parent == SubSeq(d, 1, Len(d) - 1)
     IN /\ parent \in DOMAIN nodes
        /\ \E k \in 1..Len(nodes[parent].children) : nodes[parent].children[k] = d

\* the directories whose listing fails when walkGo reads them
FailingDirs ==
  {d \in tree.unreadable : ~(DepthOf(d) <= 1 /\ d \in fsFilter)}

C13_FailedNode ==
  /\ \A d \in FailingDirs \cap DOMAIN nodes : ZeroNode(nodes[d]) /\ Attached(d)
  /\ \A d \in FailingDirs :
       /\ \A p \in DOMAIN nodes : ~Under(d, p)
       /\ \A x \in offered : ~Under(d, x.path)
  /\ \A a \in DOMAIN nodes :
       /\ nodes[a].rec_size <= Expect(tree, a, DepthOf(a)).size
       /\ nodes[a].rec_files <= Expect(tree, a, DepthOf(a)).files
  /\ Quiescent =>
       /\ dirListErrors = Cardinality(FailingDirs \cap DOMAIN nodes)
       /\ totalSize = ExpectRoot.size
       /\ countFiles = ExpectRoot.files
       /\ countDirs = ExpectRoot.dirs

C13_ErrStep ==
  dirListErrors' # dirListErrors =>
    /\ dirListErrors' = dirListErrors + 1
    /\ UNCHANGED <<nodes, totalSize, countFiles, countDirs, filterDirs, maxFiles>>
    /\ \E t \in Live :
         /\ Top(t).dir \in FailingDirs
         /\ stacks' = [stacks EXCEPT ![t] = SubSeq(@, 1, Len(@) - 1)]

\* C13 (directory-read failure): a failed listing adds exactly 1 to
\* dirListErrors and only ends that walkGo call, so the rest of the tree is
\* scanned to completion; the failed directory's DirInfo stays in its parent's
\* children with no children of its own and zero imm_* and rec_* sizes and
\* counts, and nothing below it reaches any rec_size, rec_files or collector.
C13_ReadDirFailure == []C13_FailedNode /\ [][C13_ErrStep]_vars

\* a finished scan that met one unreadable directory and counted the rest
C13_Witness ==
  /\ mainpc = "done" /\ Quiescent
  /\ dirListErrors = 1
  /\ <<"a", "bad">> \in DOMAIN nodes
  /\ countFiles = ExpectRoot.files /\ countFiles > 0

C14_StatErrStep ==
  filestatErrors' # filestatErrors =>
    /\ filestatErrors' = filestatErrors + 1
    /\ UNCHANGED <<nodes, totalSize, countFiles, countDirs, filterDirs, dirListErrors,
                   notDirOrFile, maxFiles, offered>>
    /\ \E t \in Live :
         /\ AtEntry(t, "file") /\ ~Entries(Top(t))[Top(t).idx].ok
         /\ stacks' = [stacks EXCEPT ![t][Len(stacks[t])].idx = @ + 1]

C14_AllEntriesSeen ==
  Quiescent =>
    /\ filestatErrors = ExpectRoot.statErrs
    /\ notDirOrFile = ExpectRoot.others
    /\ countFiles = ExpectRoot.files
    /\ countDirs = ExpectRoot.dirs

\* C14 (file-stat failure): a failed Info() adds exactly 1 to filestatErrors
\* and changes nothing else (no DirInfo field, totalSize, countFiles or the
\* largest-file collector), and the loop goes on with the next entry, so every
\* entry of the directory is processed.
C14_StatFailure == []C14_AllEntriesSeen /\ [][C14_StatErrStep]_vars

\* a finished scan that met a failing stat and then the entry listed after it
C14_Witness ==
  /\ mainpc = "done" /\ Quiescent
  /\ filestatErrors = 1 /\ notDirOrFile = 1

\* C15 (fatal start-up errors): a failure to absolutize the root path ends the
\* program with exit status 3 before any scan has started, and extra
\* positional arguments end it with exit status 2.
C15_ExitCodes ==
  [][/\ MainAbsErr => (exitCode' = 3 /\ stacks' = <<>> /\ nodes' = <<>>)
     /\ MainExtraArgs => (exitCode' = 2 /\ stacks' = <<>> /\ nodes' = <<>>)]_vars

\* a finished scan of a readable root directory that lists no entries
EmptyRootDone ==
  /\ mainpc = "done"
  /\ tree.ls[tree.root] = <<>>
  /\ tree.root \notin tree.unreadable /\ tree.root \notin fsFilter

EmptyRootScan ==
  /\ countFiles = 0 /\ countDirs = 0 /\ totalSize = 0
  /\ nodes[tree.root] = NewDirInfo(tree.root)
  /\ ZeroNode(nodes[tree.root])
  /\ nodes[tree.root].imm_old_file = MathMaxInt64 /\ nodes[tree.root].imm_new_file = MathMinInt64
  /\ nodes[tree.root].rec_old_file = MathMaxInt64 /\ nodes[tree.root].rec_new_file = MathMinInt64
  /\ maxFiles.mapMax = {}
  /\ exitCode = 0

\* C16 (empty root), as claimed: the scan of an empty root ends with zero
\* counters, a zeroed root DirInfo with the sentinel modtimes, and every top-K
\* collector empty, the four per-directory ones included.
C16_EmptyRoot ==
  EmptyRootDone =>
    /\ EmptyRootScan
    /\ maxDirByImmSize = {} /\ maxDirByImmCount = {}
    /\ maxDirByImmDirCount = {} /\ maxDirByRecSize = {}

\* C16 (empty root), amended: the scan of an empty root ends with zero
\* counters, a zeroed root DirInfo with the sentinel modtimes and an empty
\* largest-file collector; each of the four per-directory collectors holds
\* the one record (0, root) that the report walk feeds for the root itself.
C16_EmptyRootReport ==
  EmptyRootDone =>
    /\ EmptyRootScan
    /\ maxDirByImmSize = {PathSize(0, tree.root)}
    /\ maxDirByImmCount = {PathSize(0, tree.root)}
    /\ maxDirByImmDirCount = {PathSize(0, tree.root)}
    /\ maxDirByRecSize = {PathSize(0, tree.root)}

C16_Witness == EmptyRootDone /\ Cardinality(maxDirByRecSize) = 1

\* the directories walkGo rejects: depth <= 1 and the name in the filter set
FilterDirs == {d \in DOMAIN nodes : DepthOf(d) <= 1 /\ d \in fsFilter}

EntriesOfKind(d, kind, ok) ==
  Cardinality({i \in 1..Len(tree.ls[d]) : tree.ls[d][i].kind = kind /\ tree.ls[d][i].ok = ok})

C17_FilteredNode ==
  /\ \A d \in FilterDirs :
       /\ ZeroNode(nodes[d])
       /\ \A p \in DOMAIN nodes : ~Under(d, p)
       /\ \A x \in offered : ~Under(d, x.path)
  /\ Quiescent =>
       /\ filterDirs = Cardinality(FilterDirs)
       /\ dirListErrors = Cardinality(FailingDirs \cap DOMAIN nodes)
       /\ \A d \in DOMAIN nodes :
            (DepthOf(d) >= 2 /\ d \notin tree.unreadable) =>
              /\ nodes[d].imm_files = EntriesOfKind(d, "file", TRUE)
              /\ nodes[d].imm_dirs = EntriesOfKind(d, "dir", TRUE)
       /\ tree.root \in fsFilter =>
            /\ filterDirs = 1
            /\ DOMAIN nodes = {tree.root}
            /\ countFiles = 0 /\ countDirs = 0 /\ totalSize = 0
            /\ dirListErrors = 0 /\ filestatErrors = 0 /\ notDirOrFile = 0
            /\ maxFiles.mapMax = {} /\ offered = {}

C17_FilterStep ==
  filterDirs' # filterDirs =>
    /\ filterDirs' = filterDirs + 1
    /\ UNCHANGED <<nodes, totalSize, countFiles, countDirs, dirListErrors, filestatErrors,
                   notDirOrFile, maxFiles, offered>>
    /\ \E t \in Live :
         /\ Top(t).idx = 0 /\ Top(t).depth <= 1 /\ Top(t).dir \in fsFilter
         /\ stacks' = [stacks EXCEPT ![t] = SubSeq(@, 1, Len(@) - 1)]

\* C17 (shallow path filter): a directory at depth <= 1 whose name is one of
\* /proc, /dev, /sys is not read: filterDirs grows by exactly 1, its DirInfo
\* keeps no children and zero stats, dirListErrors does not change even when
\* the directory is unreadable, and nothing below it is seen.  A directory at
\* depth >= 2 is never rejected.  When the root is a filter path the scan
\* ends with filterDirs = 1 and no files, directories or collector records.
C17_ShallowFilter == []C17_FilteredNode /\ [][C17_FilterStep]_vars

\* a finished scan of / that rejected /proc (unreadable as well) and read
\* /a/proc at depth 2
C17_Witness ==
  /\ mainpc = "done" /\ Quiescent
  /\ filterDirs = 1 /\ <<"proc">> \in FilterDirs /\ <<"proc">> \in tree.unreadable
  /\ <<"a", "proc">> \in DOMAIN nodes /\ nodes[<<"a", "proc">>].imm_files = 1

UserNodes(u) == u.filecount + u.dircount

\* C18 (user report): the rows printed are entries of the uid map, each uid at
\* most once, in order of size descending and, for equal sizes, files + dirs
\* descending; they are the first K of that order, all entries when the map
\* has at most K.
C18_UserReport ==
  userReport.done =>
    LET rows == userReport.rows
        K == userReport.limit
        n == Cardinality(DOMAIN userMap)
    IN /\ Len(rows) = (IF n < K THEN n ELSE K)
       /\ \A i \in 1..Len(rows) :
            rows[i].uid \in DOMAIN userMap /\ rows[i] = userMap[rows[i].uid]
       /\ \A i, j \in 1..Len(rows) : rows[i].uid = rows[j].uid => i = j
       /\ \A i, j \in 1..Len(rows) :
            i < j => \/ rows[i].size > rows[j].size
                     \/ rows[i].size = rows[j].size /\ UserNodes(rows[i]) >= UserNodes(rows[j])
       /\ \A u \in DOMAIN userMap :
            (\A i \in 1..Len(rows) : rows[i].uid # u) =>
              \A i \in 1..Len(rows) :
                \/ rows[i].size > userMap[u].size
                \/ rows[i].size = userMap[u].size /\ UserNodes(rows[i]) >= UserNodes(userMap[u])

\* main's final Acquire(W) has not returned yet
BeforeBarrier == mainpc \in {"start", "acquire", "scan", "barrier", "waiting", "blocked"}

C19_PermitsHeld ==
  /\ BeforeBarrier => workerSema.cur = LiveTasks
  /\ \A t \in Live :
       /\ stacks[t][1].goroutine
       /\ \A k \in 2..Len(stacks[t]) : ~stacks[t][k].goroutine

\* the permits a Release hands to main's blocked Acquire(W) in this step
GrantedToMain ==
  IF workerSema.waiters # <<>> /\ workerSema'.waiters = <<>> THEN threadLimit ELSE 0

C19_CallStep ==
  /\ \A t \in DOMAIN stacks' \ DOMAIN stacks :
       /\ workerSema'.cur = workerSema.cur + 1
       /\ Len(stacks'[t]) = 1 /\ stacks'[t][1].goroutine
  /\ \A t \in Live :
    /\ Len(stacks'[t]) < Len(stacks[t]) =>
         /\ Len(stacks'[t]) = Len(stacks[t]) - 1
         /\ IF Top(t).goroutine
            THEN /\ workerSema'.cur = workerSema.cur - 1 + GrantedToMain
                 /\ stacks'[t] = <<>>
            ELSE workerSema' = workerSema
    /\ Len(stacks'[t]) > Len(stacks[t]) =>
         /\ workerSema' = workerSema
         /\ ~stacks'[t][Len(stacks'[t])].goroutine

\* C19 (permit accounting): until main's final Acquire(W) returns, the permits
\* held equal the number of walkGo tasks in flight (the root scan and the
\* spawned tasks that have not returned); the return of a call started with
\* goroutine = true, by any of its exits, releases exactly one permit, and a
\* synchronous call (goroutine = false) neither acquires nor releases one.
C19_PermitAccounting == []C19_PermitsHeld /\ [][C19_CallStep]_vars

\* two tasks in flight holding the two permits, one of them inside a
\* synchronous call for a directory it could not spawn a task for
C19_Witness ==
  /\ mainpc = "scan"
  /\ LiveTasks = 2 /\ workerSema.cur = 2
  /\ \E t \in Live : Len(stacks[t]) >= 2

RECURSIVE DirChildren(_, _)
\* the paths of the subdirectory entries of d's listing from entry i on, in
\* listing order
DirChildren(d, i) ==
  IF i > Len(tree.ls[d]) THEN <<>>
  ELSE (IF tree.ls[d][i].kind = "dir" THEN <<Append(d, tree.ls[d][i].name)>> ELSE <<>>)
       \o DirChildren(d, i + 1)

IsPrefix(a, b) == Len(a) <= Len(b) /\ a = SubSeq(b, 1, Len(a))

\* a walkGo call for d is on some task's stack
OnStack(d) == \E t \in Live : \E k \in 1..Len(stacks[t]) : stacks[t][k].dir = d

\* the one walkGo call for d was made and has returned
Scanned(d) == d \in DOMAIN walked /\ walked[d] = 1 /\ ~OnStack(d)

\* no directory gets a second walkGo call
NeverTwice == \A d \in DOMAIN walked : walked[d] = 1

\* every entry the loop has passed has its one DirInfo, in listing order, and
\* its one walkGo call, spawned or synchronous
OneNodePerEntry ==
  \A d \in DOMAIN nodes :
    /\ IsPrefix(nodes[d].children, DirChildren(d, 1))
    /\ \A k \in 1..Len(nodes[d].children) :
         /\ nodes[d].children[k] \in DOMAIN nodes
         /\ nodes[d].children[k] \in DOMAIN walked

\* C20 (exactly-once scanning): every subdirectory entry discovered gets one
\* DirInfo appended to its parent's children, in listing order, and one walkGo
\* call, spawned or synchronous; no directory is scanned twice, and when the
\* run ends none has been skipped: every discovered directory's call has
\* returned and every directory read has all its subdirectories as children.
C20_ExactlyOnce ==
  /\ NeverTwice
  /\ OneNodePerEntry
  /\ mainpc = "done" =>
       \A d \in DOMAIN nodes :
         /\ Scanned(d)
         /\ (d \notin tree.unreadable /\ d \notin FilterDirs) =>
              nodes[d].children = DirChildren(d, 1)

\* the tasks with a walkGo call for d in progress: between its entry and its
\* return the call writes d's imm_*, rec_* and children
Scanners(d) == {t \in Live : \E k \in 1..Len(stacks[t]) : stacks[t][k].dir = d}

\* main is about to run treePerk or walkTreeSummary, which read every DirInfo
\* and (treePerk) write rec_*
MainAccessesNodes == mainpc \in {"rollup", "report"}

\* C21 (single writer per node): a DirInfo's fields are written only by the
\* one task whose walkGo call scans that directory, and nobody else reads or
\* writes them until that call has returned: no state has two tasks scanning
\* one directory, nor main's roll-up or report walk beside a scan in progress.
C21_SingleWriter ==
  \A d \in DOMAIN nodes :
    /\ Cardinality(Scanners(d)) <= 1
    /\ MainAccessesNodes => Scanners(d) = {}

\* the (value, path) record of every DirInfo for one metric
DirRecords(metric) ==
  {PathSize(CASE metric = "immSize" -> nodes[d].imm_size
              [] metric = "immCount" -> nodes[d].imm_files
              [] metric = "immDirCount" -> nodes[d].imm_dirs
              [] metric = "recSize" -> nodes[d].rec_size, d) : d \in DOMAIN nodes}

\* C22 (per-directory top-K reports): after the report walk over N DirInfos
\* each of the four per-directory collectors holds exactly min(K, N) records,
\* those of the directories with the largest values of its metric; directories
\* with equal values are distinct records and are both kept within the top K.
C22_DirTopK ==
  mainpc = "done" =>
    /\ IsTopK(maxDirByImmSize, DirRecords("immSize"), summaryLimit)
    /\ IsTopK(maxDirByImmCount, DirRecords("immCount"), summaryLimit)
    /\ IsTopK(maxDirByImmDirCount, DirRecords("immDirCount"), summaryLimit)
    /\ IsTopK(maxDirByRecSize, DirRecords("recSize"), summaryLimit)

\* the map m with the slot added, field by field, to the entry of its uid
MergedInto(m, slot) ==
  [u \in DOMAIN m \cup {slot.uid} |->
     LET was == IF u \in DOMAIN m THEN m[u] ELSE [ZeroUserStats EXCEPT !.uid = u]
         add == IF u = slot.uid THEN slot ELSE ZeroUserStats
     IN [uid |-> u,
         size |-> was.size + add.size,
         filecount |-> was.filecount + add.filecount,
         dircount |-> was.dircount + add.dircount]]

\* what the step of task t (a call or its final flush) does to the shared state
C23_TaskStep(t) ==
  LET old == userLocal[t]
      switched == old.uid # NULL_USER_ID /\ userLocal'[t].uid # old.uid
      finalFlush == userpc'[t].done /\ ~userpc[t].done
  IN /\ IF (switched \/ finalFlush) /\ old.uid # NULL_USER_ID
        THEN userMap' = MergedInto(userMap, old)
        ELSE userMap' = userMap
     /\ IF switched
        THEN /\ switchUserCount' = switchUserCount + 1
             /\ userLocal'[t].uid \in Uids
        ELSE switchUserCount' = switchUserCount

\* C23 (concurrent flushes are additive): every flush of a local slot, by a
\* uid switch or by a task's final flush, in any interleaving of the tasks,
\* adds the slot's size, files and dirs to the map entry of its uid and
\* changes no other entry, so an entry is the per-field sum of the slots
\* flushed for it; a call with a different uid adds 1 to switchUserCount,
\* merges the old slot and leaves the local slot holding the new uid.
C23_AdditiveFlush ==
  [][\A t \in UserTasks : userpc'[t] # userpc[t] => C23_TaskStep(t)]_vars

\* every task has flushed, a uid switch happened, and one uid's entry holds
\* more calls than one task can make: both tasks flushed into it
C23_Witness ==
  /\ AllFlushed
  /\ switchUserCount >= 1
  /\ \E u \in DOMAIN userMap : userMap[u].filecount + userMap[u].dircount > MaxUserCalls

\* the modification times of the files directly in d whose stat succeeds
FileTimes(d) ==
  {tree.ls[d][i].mtime : i \in {j \in 1..Len(tree.ls[d]) :
                                  tree.ls[d][j].kind = "file" /\ tree.ls[d][j].ok}}

ImmSentinels(n) == n.imm_old_file = MathMaxInt64 /\ n.imm_new_file = MathMinInt64
RecSentinels(n) == n.rec_old_file = MathMaxInt64 /\ n.rec_new_file = MathMinInt64

C24_ImmExtrema ==
  \A d \in DOMAIN nodes :
    Scanned(d) =>
      /\ (d \notin tree.unreadable /\ d \notin FilterDirs /\ FileTimes(d) # {}) =>
           /\ nodes[d].imm_new_file \in FileTimes(d)
           /\ \A m \in FileTimes(d) : m <= nodes[d].imm_new_file
           /\ nodes[d].imm_old_file \in FileTimes(d)
           /\ \A m \in FileTimes(d) : m >= nodes[d].imm_old_file
      /\ nodes[d].imm_files > 0 => nodes[d].imm_old_file <= nodes[d].imm_new_file
      /\ ImmSentinels(nodes[d]) <=> nodes[d].imm_files = 0

C24_RecSentinels ==
  RolledUp => \A d \in DOMAIN nodes : RecSentinels(nodes[d]) <=> nodes[d].rec_files = 0

\* C24 (modtime extrema): once a directory's scan has returned, imm_new_file
\* and imm_old_file are the maximum and minimum modification time of the
\* files directly in it whose stat succeeded, imm_old_file <= imm_new_file
\* when imm_files > 0, and both keep their sentinels exactly when
\* imm_files = 0; after the roll-up rec_old_file / rec_new_file keep the
\* sentinels exactly when rec_files = 0.
C24_Extrema == C24_ImmExtrema /\ C24_RecSentinels

\* the step of task t that offers the file at its entry to maxFiles.setMaxFile
OffersFile(t) == Top(t).mid /\ stacks'[t] # stacks[t]

C25_CurrentStep ==
  \A t \in Live :
    OffersFile(t) =>
      LET size == Entries(Top(t))[Top(t).idx].size
      IN IF size <= maxFiles.minFile
         THEN maxFiles' = maxFiles
         ELSE maxFiles'.mtxLocks = maxFiles.mtxLocks + 1

\* the earlier revision: an offerer at the unlocked test goes on to Lock only
\* with a size above the watermark, and the locked part tests it again
C25_EarlierStep ==
  \A o \in DOMAIN oldpc :
    /\ (oldpc[o] = "idle" /\ oldOffer'[o] <= oldMaxFiles.minFile
          /\ oldMaxFiles'.offers # oldMaxFiles.offers) =>
         /\ oldpc'[o] = "idle"
         /\ oldMaxFiles'.mapMax = oldMaxFiles.mapMax
         /\ oldMaxFiles'.minFile = oldMaxFiles.minFile
         /\ oldMaxFiles'.mtx = oldMaxFiles.mtx
    /\ (oldpc[o] = "locked" /\ oldpc'[o] = "idle" /\ oldOffer[o] <= oldMaxFiles.minFile) =>
         /\ oldMaxFiles'.mapMax = oldMaxFiles.mapMax
         /\ oldMaxFiles'.minFile = oldMaxFiles.minFile

\* C25 (lock-free rejection): an offer whose size is <= the watermark returns
\* without taking the collector's mutex and leaves contents and watermark as
\* they were; only a size above the watermark takes the mutex, under which
\* the watermark is tested again.
C25_LockFreeReject == [][C25_CurrentStep /\ C25_EarlierStep]_vars

\* C26 (counters agree with the tree): once every traversal task has returned
\* and the roll-up has run, totalSize = root.rec_size, countFiles =
\* root.rec_files and countDirs = root.rec_dirs.
C26_CountersAgree ==
  (Quiescent /\ RolledUp) =>
    /\ totalSize = nodes[tree.root].rec_size
    /\ countFiles = nodes[tree.root].rec_files
    /\ countDirs = nodes[tree.root].rec_dirs

====
